---- MODULE Spec2Model ----
(***************************************************************************)
(* A model of salttesting/case.py:                                         *)
(*   - ShellTestCase.run_script: spawning a shell command in its own       *)
(*     process group, the timeout polling loop with its SIGINT / SIGKILL   *)
(*     escalation, the capture of stdout / stderr through OS pipes and     *)
(*     the shaping of the returned value;                                  *)
(*   - ModuleCase.run_function / _check_state_return: the reconciliation   *)
(*     of "state function is running" marker lines.                        *)
(***************************************************************************)
EXTENDS Integers, Sequences, FiniteSets, Bags, TLC

\* ------------------------------------------------------------------ bounds

\* Largest timeout (seconds) a call is made with.
MaxTimeout == 1
\* Capacity of an OS pipe buffer, in tokens.
PipeCap == 1
\* The child writes up to PipeCap + MaxExtra tokens to each stream.
MaxExtra == 1

MaxData == PipeCap + MaxExtra

\* Lines of list replies received in the course of one test, all replies
\* counted.
MaxLines == 2
\* Job ids are 1..MaxJid.
MaxJid == 2

\* ------------------------------------------------------------ python values

\* Python's None and an optional value.
None == <<>>
Some(x) == <<x>>

\* The characters a child writes: an ordinary character and a line break.
Tokens == {"x", "\n"}

\* str.splitlines(): the lines of a blob, cut at each line break; a trailing
\* line break opens no further (empty) line.
RECURSIVE SplitFrom(_, _, _)
SplitFrom(s, i, cur) ==
    IF i > Len(s) THEN (IF cur = <<>> THEN <<>> ELSE <<cur>>)
    ELSE IF s[i] = "\n" THEN <<cur>> \o SplitFrom(s, i + 1, <<>>)
    ELSE SplitFrom(s, i + 1, Append(cur, s[i]))

splitlines(s) == SplitFrom(s, 1, <<>>)

\* '{0}'.format(n) for a natural number: its decimal digits.
Digits == <<"0", "1", "2", "3", "4", "5", "6", "7", "8", "9">>

RECURSIVE format(_)
format(n) ==
    IF n < 10 THEN <<Digits[n + 1]>>
    ELSE format(n \div 10) \o <<Digits[(n % 10) + 1]>>

\* Tagged python values of a result.
Blob(s)  == [t |-> "blob",  v |-> s]
Lines(l) == [t |-> "lines", v |-> l]
Code(rc) == [t |-> "code",  v |-> rc]
Tuple(e) == [t |-> "tuple", v |-> e]
False    == [t |-> "bool",  v |-> <<>>]

\* Exceptions leaving run_script.
NoExc        == [type |-> "none", errno |-> 0]
RuntimeError == [type |-> "RuntimeError", errno |-> 0]
OSError(e)   == [type |-> "OSError", errno |-> e]

NoResult == [t |-> "unset", v |-> <<>>]

\* The two lines of the timeout result (lines 253-258).
TimeoutLine(tmo) ==
    <<"Process took more than ">> \o format(tmo)
        \o <<" seconds to complete. Process Killed!">>
StderrLine == <<"Process killed, unable to catch stderr output">>

\* --------------------------------------------------------------- the state

VARIABLES
    \* the call and its platform
    script_found, win, py26, catch_stderr, with_retcode, timeout, raw,
    \* the run_cloud call the run_script call is made by, if any
    cloud,
    \* run_script's locals
    pc, stop_at, term_sent, out, err, result, exc,
    \* the subprocess.Popen object
    returncode, stdout, stderr,
    \* the operating system
    now, shell, cmd, status, pending, left, pipe, signals, spawns,
    \* ModuleCase: the python call stack of run_state / run_function /
    \* _check_state_return, the bag of commands given to self.client.cmd,
    \* how the outermost call ended, and the lines received in list replies
    stack, cmds, outcome, lines

callvars == <<script_found, win, py26, catch_stderr, with_retcode, timeout, raw,
              cloud>>
locals   == <<pc, stop_at, term_sent, out, err, result, exc>>
popen    == <<returncode, stdout, stderr>>
osvars   == <<now, shell, cmd, status, pending, left, pipe, signals, spawns>>
rvars    == <<stack, cmds, outcome, lines>>
vars     == <<callvars, locals, popen, osvars, rvars>>

Streams == {"out", "err"}

\* errno of "no such process" (line 250), and the errnos os.getpgid / os.killpg
\* can fail with: ESRCH and EPERM (1).
ESRCH == 3
Errnos == {1, ESRCH}
\* signal numbers
SIGINT  == 2
SIGKILL == 9
SIGTERM == 15

\* Exit codes of a command that runs to its end.
ExitCodes == {0, 1}

Timeouts == {None} \cup {Some(n) : n \in 0..MaxTimeout}

\* How a call of ModuleCase ended, or that none has.
Idle == [t |-> "idle", value |-> None]

\* No ModuleCase call under way.
NoModuleCall ==
    /\ stack = <<>>
    /\ cmds = EmptyBag
    /\ outcome = Idle
    /\ lines = 0

\* run_script called by the test itself, not by run_cloud.
NoCloud == [called |-> FALSE, catch_stderr |-> FALSE, timeout |-> None]

\* Nothing of run_script has run yet.
NothingRun ==
    /\ stop_at = 0
    /\ term_sent = FALSE
    /\ out = <<>>
    /\ err = <<>>
    /\ result = NoResult
    /\ exc = NoExc
    /\ returncode = None
    /\ stdout = "none"
    /\ stderr = "none"
    /\ now = 0
    /\ shell = "none"
    /\ cmd = "none"
    /\ status = 0
    /\ pending = {}
    /\ left = [s \in Streams |-> 0]
    /\ pipe = [s \in Streams |-> <<>>]
    /\ signals = <<>>
    /\ spawns = 0

\* The state at the entry of run_script, whatever its arguments.
ScriptEntry == pc = "start" /\ NothingRun

\* A run_script call with any arguments, on any platform.
Init ==
    /\ script_found \in BOOLEAN
    /\ win \in BOOLEAN
    /\ py26 \in BOOLEAN
    /\ catch_stderr \in BOOLEAN
    /\ with_retcode \in BOOLEAN
    /\ raw \in BOOLEAN
    /\ timeout \in Timeouts
    /\ cloud = NoCloud
    /\ ScriptEntry
    /\ NoModuleCall

\* --------------------------------------------------------------- run_script

\* Lines 195-197: the script is not a file: the soft failure.
NoScript ==
    /\ pc = "start"
    /\ ~script_found
    /\ pc' = "returned"
    /\ result' = False
    /\ UNCHANGED <<rvars, callvars, stop_at, term_sent, out, err, exc, popen, osvars>>

\* Variant: the platform test of line 226 left out.
TimeoutUnsupportedNever == FALSE

\* Line 226: a timeout is asked for on a platform without process groups.
TimeoutUnsupported == win /\ timeout # None

\* Lines 217-227: a timeout on Windows is refused before Popen.
WindowsTimeout ==
    /\ pc = "start"
    /\ script_found
    /\ TimeoutUnsupported
    /\ pc' = "raised"
    /\ exc' = RuntimeError
    /\ UNCHANGED <<rvars, callvars, stop_at, term_sent, out, err, result, popen, osvars>>

\* Lines 209-233: Popen(cmd, shell=True, stdout=PIPE[, stderr=PIPE]); the shell
\* and the command it runs are the members of the new process group. The
\* amount the command will write to each stream is the command's choice.
Spawn ==
    /\ pc = "start"
    /\ script_found
    /\ ~TimeoutUnsupported
    /\ spawns' = spawns + 1
    /\ shell' = "running"
    /\ cmd' = "running"
    /\ \E no \in 0..MaxData, ne \in 0..MaxData :
           left' = [s \in Streams |-> IF s = "out" THEN no ELSE ne]
    /\ stdout' = "open"
    /\ stderr' = IF catch_stderr = TRUE THEN "open" ELSE "none"
    /\ IF timeout # None
       THEN /\ stop_at' = now + timeout[1]
            /\ pc' = "poll"
       ELSE /\ stop_at' = stop_at
            /\ pc' = "capture"
    /\ UNCHANGED <<rvars, callvars, term_sent, out, err, result, exc, returncode,
                   now, status, pending, pipe, signals>>

\* ------------------------------------------------------- the process group

\* The members of the group that hold the write ends of the child's streams.
Writers == (IF shell = "running" THEN {"shell"} ELSE {})
              \cup (IF cmd = "running" THEN {"cmd"} ELSE {})

\* The members of the group that are alive: a command that has detached goes
\* on in the background with its streams closed.
Alive == Writers \cup (IF cmd = "detached" THEN {"cmd"} ELSE {})

\* Whether stream s of the child is a pipe read by run_script (stdout always,
\* stderr when catch_stderr is True, lines 209-215).
Piped(s) == IF s = "out" THEN stdout # "none" ELSE stderr # "none"

\* The command writes one token to stream s; a write to a full pipe blocks.
Write(s) ==
    /\ cmd = "running"
    /\ left[s] > 0
    /\ left' = [left EXCEPT ![s] = @ - 1]
    /\ IF Piped(s)
       THEN /\ Len(pipe[s]) < PipeCap
            /\ \E tok \in Tokens : pipe' = [pipe EXCEPT ![s] = Append(@, tok)]
       ELSE pipe' = pipe
    /\ UNCHANGED <<rvars, callvars, locals, popen, now, shell, cmd, status, pending,
                   signals, spawns>>

\* The command exits once it has written all its output.
CmdExit ==
    /\ cmd = "running"
    /\ \A s \in Streams : left[s] = 0
    /\ cmd' = "dead"
    /\ UNCHANGED <<rvars, callvars, locals, popen, now, shell, status, pending, left,
                   pipe, signals, spawns>>

\* The command, its output written, closes its streams and goes on in the
\* background (a daemon; a job started with & and its output redirected).
CmdDetach ==
    /\ cmd = "running"
    /\ \A s \in Streams : left[s] = 0
    /\ cmd' = "detached"
    /\ UNCHANGED <<rvars, callvars, locals, popen, now, shell, status, pending, left,
                   pipe, signals, spawns>>

\* The shell exits with its command's exit code once the command is gone or
\* in the background.
ShellExit ==
    /\ shell = "running"
    /\ cmd \in {"dead", "detached"}
    /\ shell' = "zombie"
    /\ \E c \in ExitCodes : status' = c
    /\ UNCHANGED <<rvars, callvars, locals, popen, now, cmd, pending, left, pipe,
                   signals, spawns>>

\* A member of the group with a pending SIGINT dies of it (a member that
\* ignores or handles the signal never takes this step).
DieOfSigint(m) ==
    /\ m \in pending \cap Alive
    /\ pending' = pending \ {m}
    /\ IF m = "shell"
       THEN /\ shell' = "zombie"
            /\ status' = -SIGINT
            /\ cmd' = cmd
       ELSE /\ cmd' = "dead"
            /\ UNCHANGED <<shell, status>>
    /\ UNCHANGED <<rvars, callvars, locals, popen, now, left, pipe, signals, spawns>>

\* The wall clock advances (tracked up to the first instant past stop_at).
Tick ==
    /\ pc \in {"poll", "sigint", "sigkill"}
    /\ now <= stop_at
    /\ now' = now + 1
    /\ UNCHANGED <<rvars, callvars, locals, popen, shell, cmd, status, pending, left,
                   pipe, signals, spawns>>

\* --------------------------------------------------------- the timeout loop

\* Popen.poll(): reaps the shell when it has exited and records its exit code.
Reaped == shell = "zombie"

\* Lines 235-238 and 268-269: one turn of the loop up to its branch.
Poll ==
    /\ pc = "poll"
    /\ IF Reaped
       THEN /\ shell' = "reaped"
            /\ returncode' = Some(status)
       ELSE UNCHANGED <<shell, returncode>>
    /\ pc' = IF now > stop_at
             THEN (IF term_sent = FALSE THEN "sigint" ELSE "sigkill")
             ELSE (IF returncode' # None THEN "capture" ELSE "poll")
    /\ UNCHANGED <<rvars, callvars, stop_at, term_sent, out, err, result, exc,
                   stdout, stderr, now, cmd, status, pending, left, pipe,
                   signals, spawns>>

\* Variant: the group id kept from the spawn, never looked up again.
KillpgOfKnownGroup == {0} \cup (Errnos \ {ESRCH})

\* os.killpg(os.getpgid(process.pid), sig): the outcome of the two system
\* calls: the errno they fail with, or 0. A reaped pid no longer names a
\* process (ESRCH); otherwise the calls succeed or fail with another errno.
KillpgOutcomes == IF shell = "reaped" THEN {ESRCH} ELSE {0} \cup (Errnos \ {ESRCH})

\* Variant: the signal sent to the child alone, os.kill(process.pid, sig).
KillChildOnly(sig, e, to) == [sig |-> sig, errno |-> e, to |-> to \cap {"shell"}]

\* The record of one signal delivery attempt: the signal, the errno it failed
\* with (0: delivered) and the running processes it reached.
Killpg(sig, e, to) == [sig |-> sig, errno |-> e, to |-> IF e = 0 THEN to ELSE {}]

\* Lines 242-244: the interrupt, outside any try block.
SendInterrupt ==
    /\ pc = "sigint"
    /\ \E e \in KillpgOutcomes :
         IF e # 0
         THEN /\ pc' = "raised"
              /\ exc' = OSError(e)
              /\ signals' = Append(signals, Killpg(SIGINT, e, {}))
              /\ UNCHANGED <<term_sent, pending>>
         ELSE /\ pending' = pending \cup Alive
              /\ signals' = Append(signals, Killpg(SIGINT, 0, Alive))
              /\ term_sent' = TRUE
              /\ pc' = "poll"
              /\ exc' = exc
    /\ UNCHANGED <<rvars, callvars, stop_at, out, err, result, popen, now, shell,
                   cmd, status, left, pipe, spawns>>

\* Whether the except clause of lines 249-251 swallows errno e.
Swallowed(e) == e = ESRCH

\* Lines 253-266: the value returned on timeout.
TimeoutResult ==
    LET o == Lines(<<TimeoutLine(timeout[1])>>)
        e == Lines(<<StderrLine>>)
    IN  IF catch_stderr
        THEN (IF with_retcode THEN Tuple(<<o, e, Code(returncode)>>)
                              ELSE Tuple(<<o, e>>))
        ELSE (IF with_retcode THEN Tuple(<<o, Code(returncode)>>)
                              ELSE o)

\* Lines 246-266: the kill, then the timeout result.
KillAndReturn ==
    /\ pc = "sigkill"
    /\ \E e \in KillpgOutcomes :
         IF e # 0 /\ ~Swallowed(e)
         THEN /\ pc' = "raised"
              /\ exc' = OSError(e)
              /\ signals' = Append(signals, Killpg(SIGKILL, e, {}))
              /\ UNCHANGED <<result, shell, cmd, status, pending>>
         ELSE /\ signals' = Append(signals, Killpg(SIGKILL, e, Alive))
              /\ IF e = 0
                 THEN /\ cmd' = IF "cmd" \in Alive THEN "dead" ELSE cmd
                      /\ shell' = IF shell = "running" THEN "zombie" ELSE shell
                      /\ status' = IF shell = "running" THEN -SIGKILL ELSE status
                      /\ pending' = {}
                 ELSE UNCHANGED <<shell, cmd, status, pending>>
              /\ result' = TimeoutResult
              /\ pc' = "returned"
              /\ exc' = exc
    /\ UNCHANGED <<rvars, callvars, stop_at, term_sent, out, err, popen, now, left,
                   pipe, spawns>>

\* --------------------------------------------------------- stream capture

\* End of file on the child's pipes: no member of the group is left to write.
AtEOF == Writers = {}

\* Popen.wait(): blocks until the shell has exited, then reaps it.
WaitDone == shell \in {"zombie", "reaped"}

\* Variant: the wait() workaround taken on every python version.
UsesCommunicateWithoutStderrOnly == ~catch_stderr

\* Whether the capture goes through process.communicate() (lines 289, 322)
\* and not through the python < 2.7 workaround of lines 272-287.
UsesCommunicate == ~(catch_stderr /\ py26)

\* Line 285, python < 2.7 with catch_stderr: process.wait() before any read.
Wait26 ==
    /\ pc = "capture"
    /\ ~UsesCommunicate
    /\ WaitDone
    /\ shell' = "reaped"
    /\ returncode' = IF shell = "zombie" THEN Some(status) ELSE returncode
    /\ pc' = "read26"
    /\ UNCHANGED <<rvars, callvars, stop_at, term_sent, out, err, result, exc,
                   stdout, stderr, now, cmd, status, pending, left, pipe,
                   signals, spawns>>

\* Lines 286-294, python < 2.7: stdout.read(), stderr.read(), then the closes.
Read26 ==
    /\ pc = "read26"
    /\ AtEOF
    /\ out' = pipe["out"]
    /\ err' = pipe["err"]
    /\ pipe' = [s \in Streams |-> <<>>]
    /\ stdout' = "closed"
    /\ stderr' = IF stderr = "none" THEN "none" ELSE "closed"
    /\ pc' = "return"
    /\ UNCHANGED <<rvars, callvars, stop_at, term_sent, result, exc, returncode,
                   now, shell, cmd, status, pending, left, signals, spawns>>

\* communicate() takes what stream s holds, whichever stream has data.
CommunicateRead(s) ==
    /\ pc = "capture"
    /\ UsesCommunicate
    /\ Piped(s)
    /\ pipe[s] # <<>>
    /\ pipe' = [pipe EXCEPT ![s] = <<>>]
    /\ IF s = "out"
       THEN out' = out \o pipe[s] /\ err' = err
       ELSE err' = err \o pipe[s] /\ out' = out
    /\ UNCHANGED <<rvars, callvars, pc, stop_at, term_sent, result, exc, popen,
                   now, shell, cmd, status, pending, left, signals, spawns>>

\* communicate() ends at end of file on every pipe, reaps the child and
\* closes the pipes; lines 291-294 and 323 close them (again).
CommunicateDone ==
    /\ pc = "capture"
    /\ UsesCommunicate
    /\ AtEOF
    /\ \A s \in Streams : Piped(s) => pipe[s] = <<>>
    /\ WaitDone
    /\ shell' = "reaped"
    /\ returncode' = IF shell = "zombie" THEN Some(status) ELSE returncode
    /\ stdout' = "closed"
    /\ stderr' = IF stderr = "none" THEN "none" ELSE "closed"
    /\ pc' = "return"
    /\ UNCHANGED <<rvars, callvars, stop_at, term_sent, out, err, result, exc,
                   now, cmd, status, pending, left, pipe, signals, spawns>>

\* Lines 296-313: the value returned with catch_stderr; communicate() gives
\* None for a stream that is no pipe.
ResultWithStderr ==
    LET both == stdout # "none" /\ stderr # "none"
    IN  IF with_retcode
        THEN IF both
             THEN (IF ~raw
                   THEN Tuple(<<Lines(splitlines(out)), Lines(splitlines(err)),
                                Code(returncode)>>)
                   ELSE Tuple(<<Blob(out), Blob(err), Code(returncode)>>))
             ELSE Tuple(<<Lines(splitlines(out)), Lines(<<>>), Code(returncode)>>)
        ELSE IF both
             THEN (IF ~raw
                   THEN Tuple(<<Lines(splitlines(out)), Lines(splitlines(err))>>)
                   ELSE Tuple(<<Blob(out), Blob(err)>>))
             ELSE (IF ~raw
                   THEN Tuple(<<Lines(splitlines(out)), Lines(<<>>)>>)
                   ELSE Tuple(<<Blob(out), Lines(<<>>)>>))

\* Variant: raw not honoured when the exit code is asked for.
ResultStdoutOnlySplitWithCode ==
    IF with_retcode
    THEN Tuple(<<Lines(splitlines(out)), Code(returncode)>>)
    ELSE (IF ~raw THEN Lines(splitlines(out)) ELSE Blob(out))

\* Lines 325-335: the value returned without catch_stderr.
ResultStdoutOnly ==
    IF with_retcode
    THEN (IF ~raw THEN Tuple(<<Lines(splitlines(out)), Code(returncode)>>)
                  ELSE Tuple(<<Blob(out), Code(returncode)>>))
    ELSE (IF ~raw THEN Lines(splitlines(out)) ELSE Blob(out))

\* Lines 296-341: the result, then process.terminate() in the finally clause:
\* SIGTERM to the shell alone; the OSError of a reaped pid is passed over.
Return ==
    /\ pc = "return"
    /\ result' = IF catch_stderr THEN ResultWithStderr ELSE ResultStdoutOnly
    /\ IF shell = "running"
       THEN /\ shell' = "zombie"
            /\ status' = -SIGTERM
            /\ signals' = Append(signals, Killpg(SIGTERM, 0, {"shell"}))
       ELSE UNCHANGED <<shell, status, signals>>
    /\ pc' = "returned"
    /\ UNCHANGED <<rvars, callvars, stop_at, term_sent, out, err, exc, popen, now,
                   cmd, pending, left, pipe, spawns>>

\* ------------------------------------------------------- the specification

Next ==
    \/ NoScript
    \/ WindowsTimeout
    \/ Spawn
    \/ \E s \in Streams : Write(s)
    \/ CmdExit
    \/ CmdDetach
    \/ ShellExit
    \/ \E m \in {"shell", "cmd"} : DieOfSigint(m)
    \/ Tick
    \/ Poll
    \/ SendInterrupt
    \/ KillAndReturn
    \/ Wait26
    \/ Read26
    \/ \E s \in Streams : CommunicateRead(s)
    \/ CommunicateDone
    \/ Return

Spec == Init /\ [][Next]_vars

\* The capture of a call without timeout, where the parent and the child
\* each take a step whenever one is possible: the interpreter runs on, the
\* command writes what it can and exits once its output is written.
CaptureInit == Init /\ timeout = None /\ script_found

CaptureNext ==
    \/ Spawn
    \/ \E s \in Streams : Write(s)
    \/ CmdExit
    \/ CmdDetach
    \/ ShellExit
    \/ Wait26
    \/ Read26
    \/ \E s \in Streams : CommunicateRead(s)
    \/ CommunicateDone
    \/ Return

CaptureSpec == CaptureInit /\ [][CaptureNext]_vars /\ WF_vars(CaptureNext)

\* ---------------------------------------------------------------- run_cloud

\* The truth value python's 'if' gives None or a number.
Truthy(v) == v # None /\ v[1] # 0

\* Lines 178-183: run_cloud(arg_str, catch_stderr, timeout) calls
\* run_script('salt-cloud', arg_str, catch_stderr, timeout): the arguments go
\* by position to script, arg_str, catch_stderr, with_retcode of line 185;
\* timeout and raw keep their defaults. with_retcode is only ever tested
\* for truth (lines 253-266, 297, 326).
RunCloud ==
    /\ pc = "cloud"
    /\ catch_stderr' = cloud.catch_stderr
    /\ with_retcode' = Truthy(cloud.timeout)
    /\ timeout' = None
    /\ raw' = FALSE
    /\ pc' = "start"
    /\ UNCHANGED <<rvars, script_found, win, py26, cloud, stop_at, term_sent,
                   out, err, result, exc, popen, osvars>>

\* A test of ShellTestCase: a call of run_script, or a call of run_cloud
\* with any catch_stderr and timeout.
CloudInit ==
    \/ Init
    \/ /\ script_found \in BOOLEAN
       /\ win \in BOOLEAN
       /\ py26 \in BOOLEAN
       /\ cloud \in [called : {TRUE}, catch_stderr : BOOLEAN, timeout : Timeouts]
       /\ catch_stderr = FALSE
       /\ with_retcode = FALSE
       /\ timeout = None
       /\ raw = FALSE
       /\ pc = "cloud"
       /\ NothingRun
       /\ NoModuleCall

CloudNext == RunCloud \/ Next

CloudSpec == CloudInit /\ [][CloudNext]_vars

\* ------------------------------------------------------- ModuleCase values

JIDs == 1..MaxJid

\* What self.client.cmd gives for the target: nothing (the target is not in
\* the reply), None, a mapping, a string or a list. A mapping or a string is
\* told by the job ids its text holds (m); a list by its items.
NoReply   == [t |-> "noreply", m |-> {}, items |-> <<>>]
NoneValue == [t |-> "none", m |-> {}, items |-> <<>>]
Dict(m)   == [t |-> "dict", m |-> m, items |-> <<>>]
Str(m)    == [t |-> "str", m |-> m, items |-> <<>>]
List(l)   == [t |-> "list", m |-> {}, items |-> l]

\* The items of a list: an item that is no string, a line of text that does
\* not start with the marker, a marker line 'The function "..." is running as
\* PID ... and was started at ... with jid <jid>', and a line synthesized at
\* lines 427-434, told by the job ids its text holds.
Other       == [k |-> "other", jid |-> 0, m |-> {}]
Text        == [k |-> "text", jid |-> 0, m |-> {}]
Marker(jid) == [k |-> "marker", jid |-> jid, m |-> {jid}]
Enforced(m) == [k |-> "enforced", jid |-> 0, m |-> m]

\* Line 410: isinstance(item, string_types).
IsString(item) == item.k # "other"

\* Variant: every line of text taken for a marker line.
MatchesAnyText(item) == item.k \in {"marker", "text"}

\* Line 413: STATE_FUNCTION_RUNNING_RE.match(item): the pattern is matched at
\* the start of the line; a synthesized line starts with '[TEST SUITE ENFORCED]'.
Matches(item) == item.k = "marker"

\* The job ids in the text of repr(value).
RECURSIVE MentionsOfItems(_)
MentionsOfItems(l) ==
    IF l = <<>> THEN {} ELSE l[1].m \cup MentionsOfItems(Tail(l))

Mentions(value) ==
    IF value.t = "list" THEN MentionsOfItems(value.items) ELSE value.m

\* Lines 427-434: the synthesized line, holding repr(job_data), repr(job_kill).
EnforcedLine(job_data, job_kill) == Enforced(job_data \cup job_kill)

\* The items a target sends in a list.
SentItems == {Other, Text} \cup {Marker(j) : j \in JIDs}

ListsUpTo(n) == UNION {[1..k -> SentItems] : k \in 0..n}

\* Lines 362-364.
know_to_return_none == {"file.chown", "file.chgrp", "ssh.recv_known_host"}

\* The functions and targets of the outermost call.
Functions == {"state.single", "test.ping", "file.chown"}
Targets == {"minion", "sub_minion"}

\* One activation of run_state or run_function, with the locals of the
\* _check_state_return it calls: ret, the copy ret[:] under iteration, the
\* position i in it, jids, and job_data and job_kill, each kept as the job
\* ids its repr holds. finds and kills count, per job id, the find_job and
\* kill_job commands the pass of this activation has had sent.
Frame(kind, function, tgt, arg) ==
    [kind |-> kind, function |-> function, tgt |-> tgt, arg |-> arg,
     phase |-> IF kind = "run_state" THEN "call" ELSE "cmd",
     ret |-> NoneValue, copy |-> <<>>, i |-> 0, jids |-> <<>>,
     job_data |-> {}, job_kill |-> {},
     finds |-> [j \in JIDs |-> 0], kills |-> [j \in JIDs |-> 0]]

Top == stack[Len(stack)]

SetTop(f) == [stack EXCEPT ![Len(stack)] = f]

\* What the target may answer to the command of frame f.
Replies(f) ==
    {NoReply, NoneValue, Dict({}), Str({})}
        \cup (IF f.arg # 0 THEN {Dict({f.arg}), Str({f.arg})} ELSE {})
        \cup {List(l) : l \in ListsUpTo(MaxLines - lines)}

\* -------------------------------------------------------------- ModuleCase

\* Lines 356-357: a test calls run_function(function, minion_tgt=tgt).
CallRunFunction ==
    /\ outcome = Idle
    /\ stack = <<>>
    /\ \E function \in Functions, tgt \in Targets :
          stack' = <<Frame("run_function", function, tgt, 0)>>
    /\ outcome' = [t |-> "running", value |-> None]
    /\ UNCHANGED <<cmds, lines, callvars, locals, popen, osvars>>

\* Line 391: a test calls run_state(function, minion_tgt=tgt).
CallRunState ==
    /\ outcome = Idle
    /\ stack = <<>>
    /\ \E tgt \in Targets :
          stack' = <<Frame("run_state", "state.single", tgt, 0)>>
    /\ outcome' = [t |-> "running", value |-> None]
    /\ UNCHANGED <<cmds, lines, callvars, locals, popen, osvars>>

\* Line 395: run_state calls run_function('state.single', [function], **kwargs).
RunStateCall ==
    /\ stack # <<>>
    /\ Top.phase = "call"
    /\ stack' = Append(SetTop([Top EXCEPT !.phase = "wait"]),
                       Frame("run_function", "state.single", Top.tgt, 0))
    /\ UNCHANGED <<cmds, outcome, lines, callvars, locals, popen, osvars>>

\* Lines 369-382: whether run_function skips the test on this reply.
Skips(function, reply) ==
    \/ reply = NoReply
    \/ reply = NoneValue /\ function \notin know_to_return_none

\* The command of the activation on top of stack st is counted in the pass
\* that called it.
Counted(st) ==
    LET f == st[Len(st)]
        c == Len(st) - 1
    IN  IF f.function = "saltutil.find_job"
        THEN [st EXCEPT ![c].finds[f.arg] = @ + 1]
        ELSE IF f.function = "saltutil.kill_job"
        THEN [st EXCEPT ![c].kills[f.arg] = @ + 1]
        ELSE st

\* Lines 365-382: self.client.cmd(minion_tgt, function, arg), then the skips.
ClientCmd ==
    /\ stack # <<>>
    /\ Top.phase = "cmd"
    /\ cmds' = cmds (+) SetToBag({[tgt |-> Top.tgt, function |-> Top.function,
                                   arg |-> Top.arg]})
    /\ \E reply \in Replies(Top) :
          /\ lines' = lines + Len(reply.items)
          /\ IF Skips(Top.function, reply)
             THEN /\ stack' = <<>>
                  /\ outcome' = [t |-> "skipped", value |-> None]
             ELSE /\ stack' = Counted(SetTop([Top EXCEPT !.ret = reply,
                                                         !.phase = "enter"]))
                  /\ outcome' = outcome
    /\ UNCHANGED <<callvars, locals, popen, osvars>>

\* Lines 385-386, 396 and 398-407: _check_state_return is entered with ret.
CheckEnter ==
    /\ stack # <<>>
    /\ Top.phase = "enter"
    /\ IF Top.ret.t = "dict"
       THEN stack' = SetTop([Top EXCEPT !.phase = "return"])
       ELSE IF Top.ret.t = "list"
       THEN stack' = SetTop([Top EXCEPT !.phase = "scan",
                                        !.copy = Top.ret.items, !.i = 1,
                                        !.jids = <<>>,
                                        !.finds = [j \in JIDs |-> 0],
                                        !.kills = [j \in JIDs |-> 0]])
       ELSE stack' = SetTop([Top EXCEPT !.phase = "return"])
    /\ UNCHANGED <<cmds, outcome, lines, callvars, locals, popen, osvars>>

\* Variant: no record of the job ids already handled.
HandledNever(jid, jids) == FALSE

\* Line 418: jid in jids.
Handled(jid, jids) == \E k \in DOMAIN jids : jids[k] = jid

\* Lines 409-425: one turn of the loop over ret[:], up to the find_job call
\* for a job id not seen before in this pass.
Scan ==
    /\ stack # <<>>
    /\ Top.phase = "scan"
    /\ Top.i <= Len(Top.copy)
    /\ LET item == Top.copy[Top.i]
       IN  IF \/ ~IsString(item)
              \/ ~Matches(item)
              \/ Handled(item.jid, Top.jids)
           THEN stack' = SetTop([Top EXCEPT !.i = @ + 1])
           ELSE stack' = Append(
                    SetTop([Top EXCEPT !.jids = Append(@, item.jid),
                                       !.phase = "find"]),
                    Frame("run_function", "saltutil.find_job", "minion",
                          item.jid))
    /\ UNCHANGED <<cmds, outcome, lines, callvars, locals, popen, osvars>>

\* Line 426: job_kill = self.run_function('saltutil.kill_job', [jid]).
KillJob ==
    /\ stack # <<>>
    /\ Top.phase = "found"
    /\ stack' = Append(
           SetTop([Top EXCEPT !.phase = "kill"]),
           Frame("run_function", "saltutil.kill_job", "minion",
                 Top.jids[Len(Top.jids)]))
    /\ UNCHANGED <<cmds, outcome, lines, callvars, locals, popen, osvars>>

\* Variant: the synthesized line put in place of the marker line.
WithLineInPlace(items, i, line) == [items EXCEPT ![i] = line]

\* Line 433: ret.append(line); i is the position of the marker line.
WithLine(items, i, line) == Append(items, line)

\* Lines 427-434: the synthesized line is appended to ret.
AppendEnforced ==
    /\ stack # <<>>
    /\ Top.phase = "killed"
    /\ stack' = SetTop([Top EXCEPT
           !.ret = List(WithLine(Top.ret.items, Top.i,
                                 EnforcedLine(Top.job_data, Top.job_kill))),
           !.i = @ + 1,
           !.phase = "scan"])
    /\ UNCHANGED <<cmds, outcome, lines, callvars, locals, popen, osvars>>

\* Whether the activation on top of the stack is at its return statement
\* (lines 401, 435): the loop is over, or there was nothing to loop over.
AtReturn(f) ==
    \/ f.phase = "return"
    \/ f.phase = "scan" /\ f.i > Len(f.copy)

\* Lines 389, 396, 401 and 435: ret is returned to the caller: to the test,
\* to run_state (which passes it to _check_state_return) or to the loop of
\* lines 423-426.
Returns ==
    /\ stack # <<>>
    /\ AtReturn(Top)
    /\ LET value == Top.ret
           rest == SubSeq(stack, 1, Len(stack) - 1)
           caller == rest[Len(rest)]
       IN  IF rest = <<>>
           THEN /\ stack' = <<>>
                /\ outcome' = [t |-> "returned", value |-> Some(value)]
           ELSE /\ outcome' = outcome
                /\ stack' = [rest EXCEPT ![Len(rest)] =
                      IF caller.phase = "find"
                      THEN [caller EXCEPT !.job_data = Mentions(value),
                                          !.phase = "found"]
                      ELSE IF caller.phase = "kill"
                      THEN [caller EXCEPT !.job_kill = Mentions(value),
                                          !.phase = "killed"]
                      ELSE [caller EXCEPT !.ret = value, !.phase = "enter"]]
    /\ UNCHANGED <<cmds, lines, callvars, locals, popen, osvars>>

\* A test of ModuleCase: one call of run_function or run_state; no script runs.
ModuleInit ==
    /\ script_found = FALSE
    /\ win = FALSE
    /\ py26 = FALSE
    /\ catch_stderr = FALSE
    /\ with_retcode = FALSE
    /\ raw = FALSE
    /\ timeout = None
    /\ cloud = NoCloud
    /\ ScriptEntry
    /\ NoModuleCall

ModuleNext ==
    \/ CallRunFunction
    \/ CallRunState
    \/ RunStateCall
    \/ ClientCmd
    \/ CheckEnter
    \/ Scan
    \/ KillJob
    \/ AppendEnforced
    \/ Returns

ModuleSpec == ModuleInit /\ [][ModuleNext]_vars

\* ---------------------------------------------------- claims on run_script

Range(f) == {f[i] : i \in DOMAIN f}

\* The output element the raw flag asks for: one unsplit blob when raw,
\* otherwise a sequence of lines, none of which holds a line break.
OutputAsRequested(e) ==
    IF raw THEN e.t = "blob"
    ELSE e.t = "lines" /\ \A i \in DOMAIN e.v : "\n" \notin Range(e.v[i])

\* The shape catch_stderr, with_retcode and raw ask for.
ShapeMatches(r) ==
    IF catch_stderr
    THEN IF with_retcode
         THEN /\ r.t = "tuple" /\ Len(r.v) = 3
              /\ OutputAsRequested(r.v[1]) /\ OutputAsRequested(r.v[2])
              /\ r.v[3].t = "code"
         ELSE /\ r.t = "tuple" /\ Len(r.v) = 2
              /\ OutputAsRequested(r.v[1]) /\ OutputAsRequested(r.v[2])
    ELSE IF with_retcode
         THEN /\ r.t = "tuple" /\ Len(r.v) = 2
              /\ OutputAsRequested(r.v[1])
              /\ r.v[2].t = "code"
         ELSE OutputAsRequested(r)

\* The output element of a result.
OutputOf(r) == IF r.t = "tuple" THEN r.v[1] ELSE r

TimedOut == pc = "returned" /\ term_sent

Delivered(sig) == {i \in DOMAIN signals : signals[i].sig = sig /\ signals[i].errno = 0}

C2_TimeoutKillsGroup ==
    (TimedOut /\ "shell" \in signals[1].to)
        => /\ OutputOf(result).v[1] = TimeoutLine(timeout[1])
           /\ Alive = {}

\* C3: the result of the timeout path has the shape the flags ask for, the
\* output being one blob when raw.
C3_TimeoutShape == TimedOut => ShapeMatches(result)

\* C4: on every exit of run_script after the spawn, each captured stream of
\* the child has been closed.
C4_StreamsClosedOnExit ==
    (pc \in {"returned", "raised"} /\ spawns > 0)
        => (stdout # "open" /\ stderr # "open")

\* C5: a signal delivery that fails with "no such process" is swallowed and
\* the call returns a result; one that fails with another errno raises.
C5_VanishedGroupSwallowed ==
    \A i \in DOMAIN signals :
        /\ signals[i].errno = ESRCH => (pc = "returned" /\ result # NoResult)
        /\ signals[i].errno \notin {0, ESRCH}
               => (pc = "raised" /\ exc = OSError(signals[i].errno))

\* C6 (as stated): the kill is sent only to a child that has not exited in
\* response to the interrupt. Refuted by the child that exits between the
\* poll and the kill.
C6_NoKillOnceExited ==
    Delivered(SIGKILL) # {}
        => ~(shell \in {"zombie", "reaped"} /\ status = -SIGINT)

\* C6 (amended): the kill signal is sent only after the interrupt and only if
\* the poll made after the interrupt recorded no exit code; when that poll
\* records the child's exit, no kill signal is sent.
C6_KillOnlyIfPollSawAlive ==
    /\ Delivered(SIGKILL) # {}
           => (returncode = None /\ Delivered(SIGINT) # {})
    /\ (TimedOut /\ returncode # None) => Delivered(SIGKILL) = {}

C6_Witness ==
    /\ TimedOut
    /\ returncode # None
    /\ Delivered(SIGINT) # {} /\ Delivered(SIGKILL) = {}

Fits(s) == left[s] + Len(pipe[s]) <= PipeCap

\* C8 (as stated): with catch_stderr and no timeout the capture never comes
\* to a standstill before run_script returns. Refuted on the python < 2.7
\* branch by a command that writes more than a pipe holds.
C8_NeverDeadlocks ==
    (catch_stderr /\ pc \in {"capture", "read26", "return"})
        => ENABLED CaptureNext

\* C8 (amended): with catch_stderr and no timeout, run_script eventually
\* returns on the communicate() branch whatever the command writes, and on
\* the python < 2.7 branch when what it writes to each stream fits the pipe.
C8_EventuallyReturns ==
    (catch_stderr /\ pc = "capture" /\ (py26 => \A s \in Streams : Fits(s)))
        ~> (pc = "returned")

C8_Witness ==
    /\ catch_stderr /\ ~py26 /\ pc = "returned"
    /\ Len(out) = MaxData /\ Len(err) = MaxData

\* A call that has returned after the spawn other than by the timeout path.
ReturnedNoTimeout == pc = "returned" /\ spawns > 0 /\ ~term_sent

\* C15: when run_script returns after the spawn other than by the timeout
\* path, process.terminate() has been attempted, its 'already terminated'
\* error has been passed over, and no process started by the call is alive.
C15_NoOrphanOnReturn ==
    ReturnedNoTimeout =>
        /\ shell \in {"zombie", "reaped"}
        /\ exc = NoExc
        /\ Alive = {}

\* The part of C15 that holds: the shell is gone and no error gets out.
C15_ShellGoneOnReturn ==
    ReturnedNoTimeout => (shell \in {"zombie", "reaped"} /\ exc = NoExc)

\* The attempts to send signal sig, delivered or not.
Sent(sig) == {i \in DOMAIN signals : signals[i].sig = sig}

\* C16: in a call with a timeout no signal is sent before the deadline has
\* passed; the first signal is the interrupt, and it reaches every member of
\* the child's process group; the kill comes only after an interrupt
\* delivered in the same call; each of the two is sent at most once.
C16_SignalOrder ==
    /\ [](timeout # None =>
            /\ signals # <<>> => (now > stop_at /\ signals[1].sig = SIGINT)
            /\ \A i \in Sent(SIGKILL) :
                   \E k \in Delivered(SIGINT) : k < i
            /\ Cardinality(Sent(SIGINT)) <= 1
            /\ Cardinality(Sent(SIGKILL)) <= 1)
    /\ [][(timeout # None /\ signals = <<>> /\ signals' # <<>>)
             => (signals'[1].errno = 0 => signals'[1].to = Alive)]_vars

C16_Witness ==
    /\ TimedOut
    /\ Len(signals) = 2
    /\ signals[1] = [sig |-> SIGINT, errno |-> 0, to |-> {"shell", "cmd"}]
    /\ signals[2].sig = SIGKILL /\ signals[2].errno = 0

\* C17: in a call with a timeout, once a poll has recorded the child's exit
\* code the call is out of the loop and in the capture, wherever the deadline
\* falls: it looks up no group for the gone child (a lookup that can only
\* fail with "no such process") and returns the captured output, not the
\* timeout message.
C17_ExitSeenLeavesLoop ==
    (timeout # None /\ returncode # None) =>
        /\ pc \in {"capture", "read26", "return", "returned"}
        /\ \A i \in DOMAIN signals : signals[i].errno # ESRCH
        /\ pc = "returned" => result # TimeoutResult

\* The part of C17 that holds: an exit code recorded by a poll made before
\* the deadline has passed leads to the capture.
C17_ExitSeenBeforeDeadline ==
    [][(pc = "poll" /\ returncode' # None /\ now <= stop_at)
         => (pc' = "capture" /\ signals' = signals)]_vars

\* The shape of a result that depends on catch_stderr alone: the output, or
\* the pair of output and error output.
ShapeByStderrOnly(r) ==
    IF catch_stderr THEN r.t = "tuple" /\ Len(r.v) = 2 ELSE r.t # "tuple"

\* C19: run_cloud(arg_str, catch_stderr, timeout) has run_script run with
\* its catch_stderr, with its timeout as timeout and with with_retcode
\* false, so that the shape of what it returns follows catch_stderr alone.
C19_CloudForwards ==
    (cloud.called /\ pc # "cloud") =>
        /\ catch_stderr = cloud.catch_stderr
        /\ timeout = cloud.timeout
        /\ with_retcode = FALSE
        /\ (pc = "returned" /\ script_found) => ShapeByStderrOnly(result)

\* The part of C19 that holds: catch_stderr is forwarded, and a run_cloud
\* call without timeout runs run_script with its defaults.
C19_CloudWithoutTimeout ==
    (cloud.called /\ pc # "cloud") =>
        /\ catch_stderr = cloud.catch_stderr
        /\ cloud.timeout = None =>
               /\ timeout = None /\ with_retcode = FALSE
               /\ (pc = "returned" /\ script_found) => ShapeByStderrOnly(result)

\* ---------------------------------------------------- claims on ModuleCase

\* The activations whose _check_state_return is at work on a list.
InPass(f) ==
    /\ f.ret.t = "list"
    /\ f.phase \in {"scan", "find", "found", "kill", "killed"}

\* A pass that has come to its return statement.
PassDone(f) == InPass(f) /\ AtReturn(f)

\* The job ids of the marker lines of a list.
MarkerJids(l) == {l[n].jid : n \in {n \in DOMAIN l : IsString(l[n]) /\ Matches(l[n])}}

\* C9: the list _check_state_return works on, and returns, is the list it
\* was given, item for item and in order, followed by zero or more
\* synthesized '[TEST SUITE ENFORCED]' lines.
C9_OnlyAppends ==
    \A d \in DOMAIN stack :
        LET f == stack[d] IN
        InPass(f) =>
            /\ Len(f.ret.items) >= Len(f.copy)
            /\ SubSeq(f.ret.items, 1, Len(f.copy)) = f.copy
            /\ \A n \in (Len(f.copy) + 1)..Len(f.ret.items) :
                   f.ret.items[n].k = "enforced"

C9_Witness ==
    \E d \in DOMAIN stack :
        /\ PassDone(stack[d])
        /\ stack[d].copy = <<Text, Marker(1)>>
        /\ Len(stack[d].ret.items) = 3

\* C10: a pass has at most one find_job and one kill_job sent per job id, and
\* when it returns it has had exactly one of each sent for each distinct job
\* id of its marker lines, none for any other, and has appended exactly one
\* line per distinct job id.
C10_OncePerJid ==
    \A d \in DOMAIN stack :
        LET f == stack[d] IN
        InPass(f) =>
            /\ \A j \in JIDs : f.finds[j] <= 1 /\ f.kills[j] <= 1
            /\ AtReturn(f) =>
                  /\ \A j \in JIDs :
                        /\ f.finds[j] = (IF j \in MarkerJids(f.copy) THEN 1 ELSE 0)
                        /\ f.kills[j] = f.finds[j]
                  /\ Len(f.ret.items) - Len(f.copy)
                         = Cardinality(MarkerJids(f.copy))

C10_Witness ==
    \E d \in DOMAIN stack :
        /\ PassDone(stack[d])
        /\ stack[d].copy = <<Marker(1), Marker(1)>>
        /\ stack[d].finds[1] = 1 /\ stack[d].kills[1] = 1
        /\ Len(stack[d].ret.items) = 3

\* A list none of whose items is a marker line.
NoMarker(l) == \A n \in DOMAIN l : l[n].k # "marker"

\* C11: _check_state_return returns a mapping as it was given, and a list
\* without marker line (items that are no text included) as it was given;
\* in neither case is a find_job or kill_job command sent: the pass stays
\* the innermost activation, in its loop, until it returns.
C11_NoOpWithoutMarker ==
    /\ [](\A d \in DOMAIN stack :
            LET f == stack[d] IN
            (InPass(f) /\ NoMarker(f.copy)) =>
                /\ d = Len(stack)
                /\ f.phase = "scan"
                /\ f.ret.items = f.copy
                /\ \A j \in JIDs : f.finds[j] = 0 /\ f.kills[j] = 0)
    /\ [][(stack # <<>> /\ Top.phase = "enter" /\ Top.ret.t = "dict")
             => /\ Len(stack') = Len(stack)
                /\ Top' = [Top EXCEPT !.phase = "return"]
                /\ AtReturn(Top')
                /\ cmds' = cmds]_vars

C11_Witness ==
    /\ outcome = [t |-> "returned", value |-> Some(List(<<Other, Text>>))]
    /\ BagCardinality(cmds) = 1

\* The positions of the marker lines of a list.
MarkerAt(l) == {n \in DOMAIN l : IsString(l[n]) /\ Matches(l[n])}

\* C12: for a list with exactly one marker line, of job id J, the pass
\* returns the list it was given followed by exactly one synthesized line,
\* and the text of that line holds J, whatever find_job and kill_job gave.
C12_LineHoldsJid ==
    \A d \in DOMAIN stack :
        LET f == stack[d] IN
        (PassDone(f) /\ Cardinality(MarkerAt(f.copy)) = 1) =>
            /\ Len(f.ret.items) = Len(f.copy) + 1
            /\ SubSeq(f.ret.items, 1, Len(f.copy)) = f.copy
            /\ f.ret.items[Len(f.ret.items)].k = "enforced"
            /\ MarkerJids(f.copy) \subseteq f.ret.items[Len(f.ret.items)].m

\* The part of C12 that holds: exactly one synthesized line is appended.
C12_OneLineAppended ==
    \A d \in DOMAIN stack :
        LET f == stack[d] IN
        (PassDone(f) /\ Cardinality(MarkerAt(f.copy)) = 1) =>
            /\ Len(f.ret.items) = Len(f.copy) + 1
            /\ SubSeq(f.ret.items, 1, Len(f.copy)) = f.copy
            /\ f.ret.items[Len(f.ret.items)].k = "enforced"

\* The activations that run a find_job or a kill_job for a pass.
ForJob(f) == f.function \in {"saltutil.find_job", "saltutil.kill_job"}

\* C13: the find_job and the kill_job of a job id are issued by run_function
\* for that job id, addressed to the target of the run_function call whose
\* reply held the marker line, whatever that target.
C13_SameTarget ==
    \A d \in DOMAIN stack :
        ForJob(stack[d]) =>
            /\ d > 1
            /\ stack[d].kind = "run_function"
            /\ stack[d].arg = stack[d - 1].jids[Len(stack[d - 1].jids)]
            /\ stack[d].tgt = stack[d - 1].tgt

\* The state-execution functions among those called.
IsStateFunction(function) == function = "state.single"

\* C14: the reply to a function that is no state-execution function goes
\* back as it was received: for its activation no find_job or kill_job is
\* called and no line is appended, marker line or not.
C14_OnlyStateFunctions ==
    \A d \in DOMAIN stack :
        LET f == stack[d] IN
        (f.kind = "run_function" /\ ~IsStateFunction(f.function)) =>
            /\ f.phase \notin {"find", "found", "kill", "killed"}
            /\ \A j \in JIDs : f.finds[j] = 0 /\ f.kills[j] = 0
            /\ InPass(f) => f.ret.items = f.copy

\* C18: the pass run_state makes over the list run_function has already
\* reconciled (line 396) calls no find_job and no kill_job and appends
\* nothing, so that one run_state call has each job id found and killed
\* once and returns one synthesized line for it.
C18_SecondPassIdle ==
    \A d \in DOMAIN stack :
        LET f == stack[d] IN
        (f.kind = "run_state" /\ InPass(f)) =>
            /\ f.phase = "scan"
            /\ f.ret.items = f.copy
            /\ \A j \in JIDs : f.finds[j] = 0 /\ f.kills[j] = 0

\* C20: whatever the target replies, the find_job and kill_job calls of a
\* pass, themselves reconciled, come to an end: no such call is made in the
\* course of the same command, to the same target and for the same job id,
\* whose reply it would reconcile (a target that answers that command the
\* same way again keeps the chain going without end).
C20_ChainEnds ==
    \A d, e \in DOMAIN stack :
        (d < e /\ ForJob(stack[d]))
            => ~(/\ stack[e].function = stack[d].function
                 /\ stack[e].tgt = stack[d].tgt
                 /\ stack[e].arg = stack[d].arg)

\* The part of C20 that holds: a pass goes once over the lines it was given,
\* and none of the lines it appends is among them or matches the marker.
C20_ScansGivenLinesOnly ==
    \A d \in DOMAIN stack :
        LET f == stack[d] IN
        InPass(f) =>
            /\ f.i \in 1..(Len(f.copy) + 1)
            /\ \A n \in DOMAIN f.ret.items :
                   n > Len(f.copy) => ~Matches(f.ret.items[n])

====
